---- MODULE Spec2Model ----
(***************************************************************************)
(* A model of konata-dance-rs: the wgpu Renderer (src/src/renderer.rs) and *)
(* the winit application that drives it (src/src/overlay.rs).              *)
(*                                                                         *)
(* Rust's Option<T> is modelled as a sequence of length 0 (None) or 1      *)
(* (Some).  Vec indices are 0-based in the code and 1-based in TLA+        *)
(* sequences, so v[i] in the code is v[i + 1] here.  Time is in            *)
(* milliseconds since the construction of the application.                 *)
(***************************************************************************)
EXTENDS Integers, Sequences, FiniteSets, TLC

VARIABLES
    window,               \* OverlayApplication.window: Option<Arc<Window>>
    renderer,             \* OverlayApplication.renderer: Option<Renderer>
    image_sequence,       \* OverlayApplication.image_sequence: Option<ImageSequence>
    last_frame_time,      \* OverlayApplication.last_frame_time
    frame_interval,       \* OverlayApplication.frame_interval
    current_frame_index,  \* OverlayApplication.current_frame_index
    frame_count,          \* OverlayApplication.frame_count
    source,               \* which image source the constructor configured
    now,                  \* the monotonic clock read by Instant::now()
    loop,                 \* the event loop: "constructed", "running", "exited", "failed"
    redraw_pending,       \* a request_redraw() not yet answered by RedrawRequested
    control_flow,         \* the ControlFlow last set: <<>> (default) or <<instant>>
    last_call,            \* observer: the operation that acted last and what it issued
    advances,             \* observer: how often line 72 (the index step) has run
    tick_trace,           \* observer: the ticks so far, while they follow TickTimes
    redraws               \* observer: parity of the number of RedrawRequested handled

vars == <<window, renderer, image_sequence, last_frame_time, frame_interval,
          current_frame_index, frame_count, source, now, loop,
          redraw_pending, control_flow, last_call, advances, tick_trace, redraws>>

app_vars == <<window, image_sequence, last_frame_time, frame_interval,
              current_frame_index, frame_count, source, now, loop,
              redraw_pending, control_flow, advances, tick_trace, redraws>>

----------------------------------------------------------------------------
(* Bounds of the model *)

\* longest image list handed to preload_images
MaxImages == 5
\* one device creates at most this many bind groups
MaxCreated == 7
\* the clock stops here
MaxTime == 300
\* largest index handed to set_current_texture_index
MaxIndex == 7
\* longest image sequence the loader hands to the application
MaxFrames == 3

----------------------------------------------------------------------------
(* Values *)

None == <<>>
Some(x) == <<x>>

Size(w, h) == [width |-> w, height |-> h]

\* RgbaImage: its dimensions and its pixel data (named, not spelled out)
ImageA == [width |-> 64, height |-> 64, pixels |-> "a"]
ImageB == [width |-> 32, height |-> 48, pixels |-> "b"]
Images == {ImageA, ImageB}

ImageLists(n) == UNION {[1..k -> Images] : k \in 0..n}

\* widths and heights delivered by Resized events
Dims == {0, 64, 128}

\* widths and heights the windowing system reports in Resized events
EventDims == {0, 128}

\* the steps by which the clock moves between two events
TimeSteps == {50, 70, 140}

\* the frame intervals the constructor is given
FrameIntervals == {100}

\* the tick instants of the timing scenario
TickTimes == <<0, 50, 120, 260>>

\* f32 has a 24-bit significand
F32Digits == 24

RECURSIVE Pow2(_)
Pow2(k) == IF k = 0 THEN 1 ELSE 2 * Pow2(k - 1)

RECURSIVE Log2Floor(_)
Log2Floor(n) == IF n < 2 THEN 0 ELSE 1 + Log2Floor(n \div 2)

\* `n as f32` for an unsigned integer n: exact below 2^24, otherwise rounded
\* to the nearest representable value, ties to even
AsF32(n) ==
    IF n < Pow2(F32Digits) THEN n
    ELSE LET ulp  == Pow2(Log2Floor(n) - (F32Digits - 1))
             q    == n \div ulp
             rem  == n % ulp
             half == ulp \div 2
         IN IF rem > half \/ (rem = half /\ q % 2 = 1)
            THEN (q + 1) * ulp
            ELSE q * ulp

\* Instant::duration_since saturates at zero
duration_since(later, earlier) == IF later >= earlier THEN later - earlier ELSE 0

\* one command issued to the device, the queue or the surface
Cmd(c, x, y) == [cmd |-> c, x |-> x, y |-> y]

Call(op, w, h, images, index, result, fx) ==
    [op |-> op, w |-> w, h |-> h, images |-> images, index |-> index,
     result |-> result, fx |-> fx]

NoCall == Call("none", 0, 0, <<>>, 0, "Ok", <<>>)

\* the tick observer: following is TRUE while the ticks so far were taken at
\* the instants TickTimes, in order; steps says which of them advanced
NoTicks == [following |-> TRUE, steps |-> <<>>]

Observe(trace, t, stepped) ==
    IF /\ trace.following
       /\ Len(trace.steps) < Len(TickTimes)
       /\ t = TickTimes[Len(trace.steps) + 1]
    THEN [trace EXCEPT !.steps = Append(@, stepped)]
    ELSE [following |-> FALSE, steps |-> <<>>]

RECURSIVE Flatten(_)
Flatten(ss) == IF ss = <<>> THEN <<>> ELSE Head(ss) \o Flatten(Tail(ss))

CountCmd(fx, c) == Cardinality({k \in 1..Len(fx) : fx[k].cmd = c})

----------------------------------------------------------------------------
(* Renderer, src/src/renderer.rs.  Each operation is a function of the     *)
(* renderer it is called on and returns the renderer it leaves behind      *)
(* (field r), the commands it issued (field fx) and how it ended.          *)

\* Renderer::new: a new device (field device counts the bind groups it has
\* created), the surface configured with the window's inner size, all four
\* dimensions taken from that size, an empty cache
Renderer_new(size) ==
    LET config == Size(size.width, size.height)
        current_dimensions ==
            [window_width  |-> AsF32(size.width),
             window_height |-> AsF32(size.height),
             image_width   |-> AsF32(size.width),
             image_height  |-> AsF32(size.height)]
    IN [device                |-> 0,
        surface               |-> config,
        texture_bind_groups   |-> <<>>,
        current_texture_index |-> 0,
        config                |-> config,
        dimensions_buffer     |-> current_dimensions,
        current_dimensions    |-> current_dimensions]

\* the device command Renderer::new issues: it configures the surface with
\* the window's inner size
Renderer_new_fx(size) == <<Cmd("configure", size.width, size.height)>>

\* resize with the zero guard written with "and": only a 0x0 size returns early
resize_and_guard(r, width, height) ==
    IF width = 0 /\ height = 0
    THEN [r |-> r, result |-> "Ok", fx |-> <<>>]
    ELSE LET config == [r.config EXCEPT !.width = width, !.height = height]
             dims   == [r.current_dimensions EXCEPT
                           !.window_width  = AsF32(width),
                           !.window_height = AsF32(height)]
         IN [r |-> [r EXCEPT !.config = config,
                             !.surface = config,
                             !.current_dimensions = dims,
                             !.dimensions_buffer = dims],
             result |-> "Ok",
             fx |-> <<Cmd("configure", width, height), Cmd("write_buffer", 0, 0)>>]

\* resize rebuilding all four dimensions from the new size, as Renderer::new does
resize_all_dims(r, width, height) ==
    IF width = 0 \/ height = 0
    THEN [r |-> r, result |-> "Ok", fx |-> <<>>]
    ELSE LET config == [r.config EXCEPT !.width = width, !.height = height]
             dims   == [window_width  |-> AsF32(width),
                        window_height |-> AsF32(height),
                        image_width   |-> AsF32(width),
                        image_height  |-> AsF32(height)]
         IN [r |-> [r EXCEPT !.config = config,
                             !.surface = config,
                             !.current_dimensions = dims,
                             !.dimensions_buffer = dims],
             result |-> "Ok",
             fx |-> <<Cmd("configure", width, height), Cmd("write_buffer", 0, 0)>>]

\* resize updating the CPU-side dimensions without writing them to the buffer
resize_no_write(r, width, height) ==
    IF width = 0 \/ height = 0
    THEN [r |-> r, result |-> "Ok", fx |-> <<>>]
    ELSE LET config == [r.config EXCEPT !.width = width, !.height = height]
             dims   == [r.current_dimensions EXCEPT
                           !.window_width  = AsF32(width),
                           !.window_height = AsF32(height)]
         IN [r |-> [r EXCEPT !.config = config,
                             !.surface = config,
                             !.current_dimensions = dims],
             result |-> "Ok",
             fx |-> <<Cmd("configure", width, height)>>]

\* Renderer::resize
resize(r, width, height) ==
    IF width = 0 \/ height = 0
    THEN [r |-> r, result |-> "Ok", fx |-> <<>>]
    ELSE LET config == [r.config EXCEPT !.width = width, !.height = height]
             dims   == [r.current_dimensions EXCEPT
                           !.window_width  = AsF32(width),
                           !.window_height = AsF32(height)]
         IN [r |-> [r EXCEPT !.config = config,
                             !.surface = config,
                             !.current_dimensions = dims,
                             !.dimensions_buffer = dims],
             result |-> "Ok",
             fx |-> <<Cmd("configure", width, height), Cmd("write_buffer", 0, 0)>>]

\* the bind group the loop of preload_images builds for images[i] (0-based i);
\* the device gives every bind group it creates a fresh identity: base is the
\* number of bind groups it created before this call
create_bind_group(images, i, base) ==
    [id |-> base + i, label |-> i, texture |-> images[i + 1]]

\* the images the loop of preload_images uploads, as device commands
Uploads(images, base) ==
    Flatten([k \in 1..Len(images) |->
                <<Cmd("create_texture", images[k].width, images[k].height),
                  Cmd("write_texture", images[k].width, images[k].height),
                  Cmd("create_bind_group", k - 1, base + k - 1)>>])

\* preload_images taking the image dimensions from every image in turn, so
\* that those of the last one stay
preload_images_last_dims(r, images) ==
    IF images = <<>>
    THEN [r |-> r, result |-> "Ok", fx |-> <<>>]
    ELSE LET last_dims == images[Len(images)]
             dims == [r.current_dimensions EXCEPT
                         !.image_width  = AsF32(last_dims.width),
                         !.image_height = AsF32(last_dims.height)]
             base == r.device
         IN [r |-> [r EXCEPT !.device = base + Len(images),
                             !.texture_bind_groups =
                                 [k \in 1..Len(images) |-> create_bind_group(images, k - 1, base)],
                             !.current_dimensions = dims,
                             !.dimensions_buffer = dims,
                             !.current_texture_index = 0],
             result |-> "Ok",
             fx |-> <<Cmd("write_buffer", 0, 0), Cmd("create_sampler", 0, 0)>>
                       \o Uploads(images, base)]

\* preload_images without the reset of current_texture_index
preload_keep_index(r, images) ==
    IF images = <<>>
    THEN [r |-> r, result |-> "Ok", fx |-> <<>>]
    ELSE LET first_dims == images[1]
             dims == [r.current_dimensions EXCEPT
                         !.image_width  = AsF32(first_dims.width),
                         !.image_height = AsF32(first_dims.height)]
             base == r.device
         IN [r |-> [r EXCEPT !.device = base + Len(images),
                             !.texture_bind_groups =
                                 [k \in 1..Len(images) |-> create_bind_group(images, k - 1, base)],
                             !.current_dimensions = dims,
                             !.dimensions_buffer = dims],
             result |-> "Ok",
             fx |-> <<Cmd("write_buffer", 0, 0), Cmd("create_sampler", 0, 0)>>
                       \o Uploads(images, base)]

\* Renderer::preload_images
preload_images(r, images) ==
    IF images = <<>>
    THEN [r |-> r, result |-> "Ok", fx |-> <<>>]
    ELSE LET first_dims == images[1]
             dims == [r.current_dimensions EXCEPT
                         !.image_width  = AsF32(first_dims.width),
                         !.image_height = AsF32(first_dims.height)]
             base == r.device
             groups == [k \in 1..Len(images) |-> create_bind_group(images, k - 1, base)]
             uploads == [k \in 1..Len(images) |->
                            <<Cmd("create_texture", images[k].width, images[k].height),
                              Cmd("write_texture", images[k].width, images[k].height),
                              Cmd("create_bind_group", k - 1, base + k - 1)>>]
         IN [r |-> [r EXCEPT !.device = base + Len(images),
                             !.texture_bind_groups = groups,
                             !.current_dimensions = dims,
                             !.dimensions_buffer = dims,
                             !.current_texture_index = 0],
             result |-> "Ok",
             fx |-> <<Cmd("write_buffer", 0, 0), Cmd("create_sampler", 0, 0)>>
                       \o Flatten(uploads)]

\* set_current_texture_index clamping to the last frame instead of wrapping
set_index_clamped(r, index) ==
    IF r.texture_bind_groups # <<>>
    THEN [r EXCEPT !.current_texture_index =
                      IF index < Len(r.texture_bind_groups)
                      THEN index
                      ELSE Len(r.texture_bind_groups) - 1]
    ELSE r

\* Renderer::set_current_texture_index
set_current_texture_index(r, index) ==
    IF r.texture_bind_groups # <<>>
    THEN [r EXCEPT !.current_texture_index = index % Len(r.texture_bind_groups)]
    ELSE r

\* render drawing every cached frame instead of the selected one
render_draw_all(r, acquired) ==
    IF ~acquired
    THEN [r |-> r, result |-> "Err", fx |-> <<Cmd("get_current_texture", 0, 0)>>]
    ELSE IF r.texture_bind_groups = <<>>
    THEN [r |-> r, result |-> "Ok",
          fx |-> <<Cmd("get_current_texture", 1, 0), Cmd("submit", 0, 0),
                   Cmd("present", 0, 0)>>]
    ELSE [r |-> r, result |-> "Ok",
          fx |-> <<Cmd("get_current_texture", 1, 0),
                   Cmd("begin_render_pass", 0, 0),
                   Cmd("set_pipeline", 0, 0)>>
                 \o Flatten([k \in 1..Len(r.texture_bind_groups) |->
                                <<Cmd("set_bind_group", 0, r.texture_bind_groups[k].id),
                                  Cmd("draw", 4, 1)>>])
                 \o <<Cmd("submit", 0, 0), Cmd("present", 0, 0)>>]

\* render binding the first cached frame whatever the selected index
render_binds_first(r, acquired) ==
    IF ~acquired
    THEN [r |-> r, result |-> "Err", fx |-> <<Cmd("get_current_texture", 0, 0)>>]
    ELSE IF r.texture_bind_groups = <<>>
    THEN [r |-> r, result |-> "Ok",
          fx |-> <<Cmd("get_current_texture", 1, 0), Cmd("submit", 0, 0),
                   Cmd("present", 0, 0)>>]
    ELSE LET bind_group == r.texture_bind_groups[1]
         IN [r |-> r, result |-> "Ok",
             fx |-> <<Cmd("get_current_texture", 1, 0),
                      Cmd("begin_render_pass", 0, 0),
                      Cmd("set_pipeline", 0, 0),
                      Cmd("set_bind_group", 0, bind_group.id),
                      Cmd("draw", 4, 1),
                      Cmd("submit", 0, 0),
                      Cmd("present", 0, 0)>>]

\* Renderer::render; acquired is whether surface.get_current_texture() succeeds.
\* Indexing the cache past its end panics.
render(r, acquired) ==
    IF ~acquired
    THEN [r |-> r, result |-> "Err", fx |-> <<Cmd("get_current_texture", 0, 0)>>]
    ELSE IF r.texture_bind_groups = <<>>
    THEN [r |-> r, result |-> "Ok",
          fx |-> <<Cmd("get_current_texture", 1, 0), Cmd("submit", 0, 0),
                   Cmd("present", 0, 0)>>]
    ELSE IF r.current_texture_index >= Len(r.texture_bind_groups)
    THEN [r |-> r, result |-> "Panic", fx |-> <<Cmd("get_current_texture", 1, 0)>>]
    ELSE LET bind_group == r.texture_bind_groups[r.current_texture_index + 1]
         IN [r |-> r, result |-> "Ok",
             fx |-> <<Cmd("get_current_texture", 1, 0),
                      Cmd("begin_render_pass", 0, 0),
                      Cmd("set_pipeline", 0, 0),
                      Cmd("set_bind_group", 0, bind_group.id),
                      Cmd("draw", 4, 1),
                      Cmd("submit", 0, 0),
                      Cmd("present", 0, 0)>>]

\* the bind group a render bound, as an Option
BoundGroup(fx) ==
    LET ks == {k \in 1..Len(fx) : fx[k].cmd = "set_bind_group"}
    IN IF ks = {} THEN None ELSE Some(fx[CHOOSE k \in ks : TRUE].y)

----------------------------------------------------------------------------
(* The renderer driven through its public methods, in any order *)

\* the inner size of the window the renderer under test is built on
WindowSizes == {Size(800, 600)}

InitRenderer ==
    /\ \E size \in WindowSizes :
          /\ window = Some(size)
          /\ renderer = Some(Renderer_new(size))
    /\ image_sequence = None
    /\ last_frame_time = 0
    /\ frame_interval \in FrameIntervals
    /\ current_frame_index = 0
    /\ frame_count = 0
    /\ source = "embedded"
    /\ now = 0
    /\ loop = "constructed"
    /\ redraw_pending = FALSE
    /\ control_flow = None
    /\ last_call = NoCall
    /\ advances = 0
    /\ tick_trace = NoTicks
    /\ redraws = 0

DoResize(width, height) ==
    LET out == resize(renderer[1], width, height)
    IN /\ renderer' = Some(out.r)
       /\ last_call' = Call("resize", width, height, <<>>, 0, out.result, out.fx)
       /\ UNCHANGED app_vars

DoPreload(images) ==
    /\ renderer[1].device + Len(images) <= MaxCreated
    /\ LET out == preload_images(renderer[1], images)
       IN /\ renderer' = Some(out.r)
          /\ last_call' = Call("preload_images", 0, 0, images, 0, out.result, out.fx)
    /\ UNCHANGED app_vars

DoSetIndex(index) ==
    /\ renderer' = Some(set_current_texture_index(renderer[1], index))
    /\ last_call' = Call("set_current_texture_index", 0, 0, <<>>, index, "Ok", <<>>)
    /\ UNCHANGED app_vars

DoRender(acquired) ==
    LET out == render(renderer[1], acquired)
    IN /\ renderer' = Some(out.r)
       /\ last_call' = Call("render", 0, 0, <<>>, 0, out.result, out.fx)
       /\ UNCHANGED app_vars

NextRenderer ==
    \/ \E width \in Dims, height \in Dims : DoResize(width, height)
    \/ \E images \in ImageLists(MaxImages) : DoPreload(images)
    \/ \E index \in 0..MaxIndex : DoSetIndex(index)
    \/ \E acquired \in BOOLEAN : DoRender(acquired)

SpecRenderer == InitRenderer /\ [][NextRenderer]_vars

----------------------------------------------------------------------------
(* ImageSequence, crate::image_loader (not among the sources): an ordered  *)
(* list of images, modelled as the sequence of its images.                 *)

count(sequence) == Len(sequence)

current_image(sequence) == IF sequence = <<>> THEN None ELSE Some(sequence[1])

get_all_images(sequence) == sequence

\* frame k of the sequences the loader produces
Frame(k) == IF k % 2 = 1 THEN ImageA ELSE ImageB

\* what ImageSequence::load_embedded can hand back
Loadable == {[k \in 1..n |-> Frame(k)] : n \in 0..MaxFrames}

----------------------------------------------------------------------------
(* OverlayApplication, src/src/overlay.rs *)

DefaultWidth == 800
DefaultHeight == 600

\* OverlayApplication::new_embedded, at instant 0
Init ==
    /\ window = None
    /\ renderer = None
    /\ image_sequence = None
    /\ source = "embedded"
    /\ last_frame_time = 0
    /\ frame_interval \in FrameIntervals
    /\ current_frame_index = 0
    /\ frame_count = 0
    /\ now = 0
    /\ loop = "constructed"
    /\ redraw_pending = FALSE
    /\ control_flow = None
    /\ last_call = NoCall
    /\ advances = 0
    /\ tick_trace = NoTicks
    /\ redraws = 0

\* what update leaves behind when the interval has elapsed and the index
\* becomes index
update_to(self, t, index) ==
    [last_frame_time     |-> t,
     current_frame_index |-> index,
     renderer |-> IF self.renderer # None
                  THEN Some(set_current_texture_index(self.renderer[1], index))
                  ELSE None,
     stepped |-> TRUE]

update_idle(self, t) ==
    [last_frame_time     |-> IF duration_since(t, self.last_frame_time) >= self.frame_interval
                             THEN t ELSE self.last_frame_time,
     current_frame_index |-> self.current_frame_index,
     renderer |-> self.renderer,
     stepped |-> FALSE]

\* update stepping the index without wrapping it
update_no_wrap(self, t) ==
    IF duration_since(t, self.last_frame_time) >= self.frame_interval /\ self.frame_count > 0
    THEN update_to(self, t, self.current_frame_index + 1)
    ELSE update_idle(self, t)

\* update stepping the index by two
update_by_two(self, t) ==
    IF duration_since(t, self.last_frame_time) >= self.frame_interval /\ self.frame_count > 0
    THEN update_to(self, t, (self.current_frame_index + 2) % self.frame_count)
    ELSE update_idle(self, t)

\* update catching up: one step for every whole interval that has elapsed
update_catch_up(self, t) ==
    IF duration_since(t, self.last_frame_time) >= self.frame_interval /\ self.frame_count > 0
    THEN update_to(self, t,
                   (self.current_frame_index
                      + (duration_since(t, self.last_frame_time) \div self.frame_interval))
                   % self.frame_count)
    ELSE update_idle(self, t)

\* update comparing with > where the code has >=
update_strict(self, t) ==
    IF duration_since(t, self.last_frame_time) > self.frame_interval
    THEN IF self.frame_count > 0
         THEN update_to(self, t, (self.current_frame_index + 1) % self.frame_count)
         ELSE [update_idle(self, t) EXCEPT !.last_frame_time = t]
    ELSE [update_idle(self, t) EXCEPT !.last_frame_time = self.last_frame_time]

\* update without the guard on frame_count: the index is stepped, and handed
\* to the renderer, on an empty sequence too
update_unguarded(self, t) ==
    IF duration_since(t, self.last_frame_time) >= self.frame_interval
    THEN update_to(self, t,
                   IF self.frame_count > 0
                   THEN (self.current_frame_index + 1) % self.frame_count
                   ELSE self.current_frame_index + 1)
    ELSE update_idle(self, t)

\* OverlayApplication::update on the fields it reads and writes, at instant t;
\* stepped says whether the index step of line 72 ran
update(self, t) ==
    IF duration_since(t, self.last_frame_time) >= self.frame_interval
    THEN IF self.frame_count > 0
         THEN LET index == (self.current_frame_index + 1) % self.frame_count
              IN [last_frame_time     |-> t,
                  current_frame_index |-> index,
                  renderer |-> IF self.renderer # None
                               THEN Some(set_current_texture_index(self.renderer[1], index))
                               ELSE None,
                  stepped |-> TRUE]
         ELSE [last_frame_time     |-> t,
               current_frame_index |-> self.current_frame_index,
               renderer |-> self.renderer,
               stepped |-> FALSE]
    ELSE [last_frame_time     |-> self.last_frame_time,
          current_frame_index |-> self.current_frame_index,
          renderer |-> self.renderer,
          stepped |-> FALSE]

\* OverlayApplication::render on the Option<Renderer> r
app_render(r, acquired) ==
    IF r # None
    THEN LET out == render(r[1], acquired)
         IN [renderer |-> Some(out.r), result |-> out.result, fx |-> out.fx]
    ELSE [renderer |-> None, result |-> "Ok", fx |-> <<>>]

Self ==
    [last_frame_time     |-> last_frame_time,
     frame_interval      |-> frame_interval,
     current_frame_index |-> current_frame_index,
     frame_count         |-> frame_count,
     renderer            |-> renderer]

\* OverlayApplication::run up to event_loop.run_app: the loader either fails
\* or hands back a sequence, whose count becomes frame_count
run ==
    /\ loop = "constructed"
    /\ \E loaded \in {None} \cup {Some(l) : l \in Loadable} :
          IF source = "none" \/ loaded = None
          THEN /\ loop' = "failed"
               /\ UNCHANGED <<image_sequence, frame_count>>
          ELSE /\ image_sequence' = loaded
               /\ frame_count' = count(loaded[1])
               /\ loop' = "running"
    /\ last_call' = Call("run", 0, 0, <<>>, 0, IF loop' = "failed" THEN "Err" ELSE "Ok", <<>>)
    /\ UNCHANGED <<window, renderer, last_frame_time, frame_interval,
                   current_frame_index, source, now, redraw_pending,
                   control_flow, advances, tick_trace, redraws>>

\* resumed only logging a failed Renderer::new, without event_loop.exit()
resumed_no_exit(window_ok, renderer_ok) ==
    /\ loop = "running"
    /\ LET image == IF image_sequence # None THEN current_image(image_sequence[1]) ELSE None
           size  == IF image # None
                    THEN Size(image[1].width, image[1].height)
                    ELSE Size(DefaultWidth, DefaultHeight)
           images == IF image_sequence # None THEN get_all_images(image_sequence[1]) ELSE <<>>
       IN IF ~window_ok
          THEN /\ loop' = "exited"
               /\ last_call' = Call("resumed", size.width, size.height, <<>>, 0, "Err", <<>>)
               /\ UNCHANGED <<window, renderer>>
          ELSE IF ~renderer_ok
          THEN /\ window' = Some(size)
               /\ last_call' = Call("resumed", size.width, size.height, <<>>, 0, "Err", <<>>)
               /\ UNCHANGED <<renderer, loop>>
          ELSE /\ LET out == preload_images(Renderer_new(size), images)
                  IN /\ renderer' = Some(out.r)
                     /\ last_call' = Call("resumed", size.width, size.height, images, 0,
                                          "Ok", Renderer_new_fx(size) \o out.fx)
               /\ window' = Some(size)
               /\ UNCHANGED loop
    /\ UNCHANGED <<image_sequence, last_frame_time, frame_interval, current_frame_index,
                   frame_count, source, now, redraw_pending, control_flow, advances,
                   tick_trace, redraws>>

\* ApplicationHandler::resumed; the window and the renderer may each fail
resumed(window_ok, renderer_ok) ==
    /\ loop = "running"
    /\ LET image == IF image_sequence # None THEN current_image(image_sequence[1]) ELSE None
           size  == IF image # None
                    THEN Size(image[1].width, image[1].height)
                    ELSE Size(DefaultWidth, DefaultHeight)
           images == IF image_sequence # None THEN get_all_images(image_sequence[1]) ELSE <<>>
       IN IF ~window_ok
          THEN /\ loop' = "exited"
               /\ last_call' = Call("resumed", size.width, size.height, <<>>, 0, "Err", <<>>)
               /\ UNCHANGED <<window, renderer>>
          ELSE IF ~renderer_ok
          THEN /\ window' = Some(size)
               /\ loop' = "exited"
               /\ last_call' = Call("resumed", size.width, size.height, <<>>, 0, "Err", <<>>)
               /\ UNCHANGED renderer
          ELSE /\ LET out == preload_images(Renderer_new(size), images)
                  IN /\ renderer' = Some(out.r)
                     /\ last_call' = Call("resumed", size.width, size.height, images, 0,
                                          "Ok", Renderer_new_fx(size) \o out.fx)
               /\ window' = Some(size)
               /\ UNCHANGED loop
    /\ UNCHANGED <<image_sequence, last_frame_time, frame_interval, current_frame_index,
                   frame_count, source, now, redraw_pending, control_flow, advances,
                   tick_trace, redraws>>

\* window_event, WindowEvent::CloseRequested
CloseRequested ==
    /\ loop = "running"
    /\ window # None
    /\ loop' = "exited"
    /\ last_call' = Call("CloseRequested", 0, 0, <<>>, 0, "Ok", <<>>)
    /\ UNCHANGED <<window, renderer, image_sequence, last_frame_time, frame_interval,
                   current_frame_index, frame_count, source, now,
                   redraw_pending, control_flow, advances, tick_trace, redraws>>

\* window_event, WindowEvent::Resized
Resized(width, height) ==
    /\ loop = "running"
    /\ window # None
    /\ IF renderer # None
       THEN LET out == resize(renderer[1], width, height)
            IN /\ renderer' = Some(out.r)
               /\ last_call' = Call("Resized", width, height, <<>>, 0, out.result, out.fx)
       ELSE /\ last_call' = Call("Resized", width, height, <<>>, 0, "Ok", <<>>)
            /\ UNCHANGED renderer
    /\ UNCHANGED <<window, image_sequence, last_frame_time, frame_interval,
                   current_frame_index, frame_count, source, now, loop,
                   redraw_pending, control_flow, advances, tick_trace, redraws>>

\* the RedrawRequested handler treating a render error as fatal: it asks the
\* loop to exit
RedrawRequested_fatal(acquired) ==
    /\ loop = "running"
    /\ window # None
    /\ LET u   == update(Self, now)
           out == app_render(u.renderer, acquired)
       IN /\ last_frame_time' = u.last_frame_time
          /\ current_frame_index' = u.current_frame_index
          /\ renderer' = out.renderer
          /\ advances' = IF u.stepped THEN advances + 1 ELSE advances
          /\ tick_trace' = Observe(tick_trace, now, u.stepped)
          /\ last_call' = Call("RedrawRequested", 0, 0, <<>>, u.current_frame_index,
                               out.result, out.fx)
          /\ loop' = IF out.result = "Err" THEN "exited" ELSE loop
    /\ redraw_pending' = (window # None)
    /\ redraws' = 1 - redraws
    /\ UNCHANGED <<window, image_sequence, frame_interval, frame_count, source, now,
                   control_flow>>

\* the RedrawRequested handler returning on a render error, before it
\* requests the next redraw
RedrawRequested_return(acquired) ==
    /\ loop = "running"
    /\ window # None
    /\ LET u   == update(Self, now)
           out == app_render(u.renderer, acquired)
       IN /\ last_frame_time' = u.last_frame_time
          /\ current_frame_index' = u.current_frame_index
          /\ renderer' = out.renderer
          /\ advances' = IF u.stepped THEN advances + 1 ELSE advances
          /\ tick_trace' = Observe(tick_trace, now, u.stepped)
          /\ last_call' = Call("RedrawRequested", 0, 0, <<>>, u.current_frame_index,
                               out.result, out.fx)
          /\ redraw_pending' = (out.result # "Err" /\ window # None)
    /\ redraws' = 1 - redraws
    /\ UNCHANGED <<window, image_sequence, frame_interval, frame_count, source, now,
                   loop, control_flow>>

\* RedrawRequested rendering first and keeping the advance only when the
\* render succeeded
RedrawRequested_rollback(acquired) ==
    /\ loop = "running"
    /\ window # None
    /\ LET u   == update(Self, now)
           out == app_render(u.renderer, acquired)
           kept == out.result = "Ok"
       IN /\ last_frame_time' = IF kept THEN u.last_frame_time ELSE last_frame_time
          /\ current_frame_index' = IF kept THEN u.current_frame_index ELSE current_frame_index
          /\ renderer' = IF kept THEN out.renderer ELSE renderer
          /\ advances' = IF kept /\ u.stepped THEN advances + 1 ELSE advances
          /\ tick_trace' = Observe(tick_trace, now, kept /\ u.stepped)
          /\ last_call' = Call("RedrawRequested", 0, 0, <<>>, current_frame_index',
                               out.result, out.fx)
    /\ redraw_pending' = (window # None)
    /\ redraws' = 1 - redraws
    /\ UNCHANGED <<window, image_sequence, frame_interval, frame_count, source, now,
                   loop, control_flow>>

\* window_event, WindowEvent::RedrawRequested: update, then render, then
\* request the next redraw
RedrawRequested(acquired) ==
    /\ loop = "running"
    /\ window # None
    /\ LET u   == update(Self, now)
           out == app_render(u.renderer, acquired)
       IN /\ last_frame_time' = u.last_frame_time
          /\ current_frame_index' = u.current_frame_index
          /\ renderer' = out.renderer
          /\ advances' = IF u.stepped THEN advances + 1 ELSE advances
          /\ tick_trace' = Observe(tick_trace, now, u.stepped)
          /\ last_call' = Call("RedrawRequested", 0, 0, <<>>, u.current_frame_index,
                               out.result, out.fx)
    /\ redraw_pending' = (window # None)
    /\ redraws' = 1 - redraws
    /\ UNCHANGED <<window, image_sequence, frame_interval, frame_count, source, now,
                   loop, control_flow>>

\* about_to_wait waking the loop at the next scheduled advance,
\* last_frame_time + frame_interval, whether or not the interval has elapsed
about_to_wait_next_advance ==
    /\ loop = "running"
    /\ IF window # None
       THEN /\ redraw_pending' =
                  (redraw_pending \/ duration_since(now, last_frame_time) >= frame_interval)
            /\ control_flow' = Some(last_frame_time + frame_interval)
       ELSE UNCHANGED <<redraw_pending, control_flow>>
    /\ last_call' = Call("about_to_wait", 0, 0, <<>>, 0, "Ok", <<>>)
    /\ UNCHANGED <<window, renderer, image_sequence, last_frame_time, frame_interval,
                   current_frame_index, frame_count, source, now, loop,
                   advances, tick_trace, redraws>>

\* ApplicationHandler::about_to_wait
about_to_wait ==
    /\ loop = "running"
    /\ IF duration_since(now, last_frame_time) >= frame_interval /\ window # None
       THEN /\ redraw_pending' = TRUE
            /\ control_flow' = Some(now + frame_interval)
       ELSE UNCHANGED <<redraw_pending, control_flow>>
    /\ last_call' = Call("about_to_wait", 0, 0, <<>>, 0, "Ok", <<>>)
    /\ UNCHANGED <<window, renderer, image_sequence, last_frame_time, frame_interval,
                   current_frame_index, frame_count, source, now, loop,
                   advances, tick_trace, redraws>>

\* the clock moves on between two events
Elapse(dt) ==
    /\ now + dt <= MaxTime
    /\ now' = now + dt
    /\ UNCHANGED <<window, renderer, image_sequence, last_frame_time, frame_interval,
                   current_frame_index, frame_count, source, loop,
                   redraw_pending, control_flow, last_call, advances, tick_trace, redraws>>

Next ==
    \/ run
    \/ \E window_ok \in BOOLEAN, renderer_ok \in BOOLEAN : resumed(window_ok, renderer_ok)
    \/ CloseRequested
    \/ \E width \in EventDims, height \in EventDims : Resized(width, height)
    \/ \E acquired \in BOOLEAN : RedrawRequested(acquired)
    \/ about_to_wait
    \/ \E dt \in TimeSteps : Elapse(dt)

Spec == Init /\ [][Next]_vars

\* the windowing system answers every request_redraw() with a RedrawRequested
\* event while the loop runs
DeliverRedraw == redraw_pending /\ \E acquired \in BOOLEAN : RedrawRequested(acquired)

SpecLive == Spec /\ WF_vars(DeliverRedraw)

----------------------------------------------------------------------------
(* Properties of the application, under Spec *)

\* C1: whenever frame_count > 0, whatever ticks have been handled,
\* current_frame_index lies in [0, frame_count)
C1_IndexInRange ==
    frame_count > 0 => current_frame_index \in 0..(frame_count - 1)

\* a tick has wrapped the index of a sequence of several frames around
C1_Witness ==
    /\ last_call.op = "RedrawRequested"
    /\ frame_count >= 2
    /\ advances > frame_count

\* C2: starting from 0 and stepping from k to (k + 1) mod frame_count, the
\* index after n advances is n mod frame_count: it is 0 exactly when n is a
\* multiple of frame_count
C2_Periodic ==
    frame_count > 0 =>
        /\ current_frame_index = advances % frame_count
        /\ (current_frame_index = 0) <=> (advances % frame_count = 0)

\* three frames, three advances: the index is back at 0
C2_Witness ==
    /\ frame_count = 3
    /\ advances = 3
    /\ current_frame_index = 0

\* the ticks of the timing scenario advance at the 120 ms and 260 ms ticks only
C3_Scenario ==
    (/\ tick_trace.following
     /\ frame_interval = 100
     /\ frame_count > 0)
    => tick_trace.steps = SubSeq(<<FALSE, FALSE, TRUE, TRUE>>, 1, Len(tick_trace.steps))

\* one step of the program moves the index by at most one place and counts at
\* most one advance
C3_SingleStep ==
    /\ advances' \in {advances, advances + 1}
    /\ frame_count' > 0 =>
          current_frame_index' \in {current_frame_index,
                                    (current_frame_index + 1) % frame_count'}

\* C3: a tick advances the index by at most one step however long ago the last
\* advance was, and ticks at 0, 50, 120 and 260 ms with a 100 ms interval
\* advance exactly twice, at 120 and at 260 ms
C3_NoCatchUp == [](C3_Scenario) /\ [][C3_SingleStep]_vars

\* the four ticks of the scenario have been handled, on a sequence of three
\* frames: two advances
C3_Witness ==
    /\ tick_trace.following
    /\ Len(tick_trace.steps) = Len(TickTimes)
    /\ frame_interval = 100
    /\ frame_count = 3
    /\ advances = 2
    /\ current_frame_index = 2

\* C11: a RedrawRequested whose render failed to acquire a surface image has
\* drawn, submitted and presented nothing, has left the loop running and has
\* requested the next redraw
C11_AcquireErrorCaught ==
    (last_call.op = "RedrawRequested" /\ last_call.result = "Err") =>
        /\ CountCmd(last_call.fx, "draw") = 0
        /\ CountCmd(last_call.fx, "submit") = 0
        /\ CountCmd(last_call.fx, "present") = 0
        /\ loop = "running"
        /\ redraw_pending

\* a render failed on a loaded renderer and the tick still advanced the index
C11_Witness ==
    /\ last_call.op = "RedrawRequested"
    /\ last_call.result = "Err"
    /\ renderer # None
    /\ renderer[1].texture_bind_groups # <<>>
    /\ advances > 0
    /\ loop = "running"

\* C12: every handled RedrawRequested leaves a redraw requested, whether its
\* render succeeded or failed, and a requested redraw is eventually handled
\* unless the loop stops running
C12_SelfSustaining ==
    /\ [](last_call.op = "RedrawRequested" => redraw_pending)
    /\ \A p \in {0, 1} :
          (loop = "running" /\ redraw_pending /\ redraws = p)
              ~> (redraws # p \/ loop # "running")

\* a redraw whose render failed has left the next redraw requested
C12_Witness ==
    /\ last_call.op = "RedrawRequested"
    /\ last_call.result = "Err"
    /\ redraw_pending
    /\ redraws = 0
    /\ loop = "running"

\* C13 as stated: an idle tick with no redraw pending (of a loop that has its
\* window) asks for a wake-up at last_frame_time + frame_interval
C13_WakeAtNextAdvance ==
    [][(last_call'.op = "about_to_wait" /\ now' = now /\ ~redraw_pending
           /\ window # None) =>
          control_flow' = Some(last_frame_time + frame_interval)]_vars

\* C13, amended: an idle tick at instant now, with a window and at least
\* frame_interval after last_frame_time, requests a redraw and asks for a
\* wake-up at now + frame_interval; any other idle tick requests nothing and
\* leaves the control flow as it was
C13_WakeOneIntervalAhead ==
    [][(last_call'.op = "about_to_wait" /\ now' = now) =>
          IF duration_since(now, last_frame_time) >= frame_interval /\ window # None
          THEN redraw_pending' /\ control_flow' = Some(now + frame_interval)
          ELSE UNCHANGED <<redraw_pending, control_flow>>]_vars

\* an idle tick 120 ms after the last advance has asked for a wake-up 100 ms
\* later, which is not the instant of the next scheduled advance
C13_Witness ==
    /\ last_call.op = "about_to_wait"
    /\ window # None
    /\ last_frame_time = 0
    /\ now = 120
    /\ control_flow = Some(220)
    /\ redraw_pending

\* a run that returned an error never entered the loop: no window, no renderer
C14_RunError ==
    loop = "failed" => (window = None /\ renderer = None /\ last_call.op = "run")

\* a resumed that fails to create the window or the renderer asks the loop to
\* exit, installs no renderer and issues no command
C14_ResumedError ==
    (loop = "running" /\ last_call'.op = "resumed" /\ last_call'.result = "Err") =>
        /\ loop' = "exited"
        /\ renderer' = renderer
        /\ last_call'.fx = <<>>

\* once the loop has failed or exited no handler runs: the renderer stays as
\* it is and no command is issued
C14_NothingAfterExit ==
    (loop \in {"failed", "exited"}) => UNCHANGED <<loop, window, renderer, last_call>>

\* C14: a fatal initialization error never leads to a running renderer: an
\* error of run ends before the loop starts, a failed resumed exits the loop
\* without installing a renderer, and nothing is drawn afterwards
C14_FatalInit ==
    /\ [](C14_RunError)
    /\ [][C14_ResumedError]_vars
    /\ [][C14_NothingAfterExit]_vars

\* the first resumed created the window and failed to create the renderer
C14_Witness ==
    /\ last_call.op = "resumed"
    /\ last_call.result = "Err"
    /\ window # None
    /\ renderer = None
    /\ loop = "exited"
    /\ now > 0

\* the index after one advance (no step on an empty sequence)
Advanced(index) == IF frame_count > 0 THEN (index + 1) % frame_count ELSE index

\* a tick (a step that handles RedrawRequested, which runs update once) resets
\* last_frame_time to now, advances the index and hands it to the renderer
\* when at least frame_interval has elapsed, and otherwise leaves all three
C15_Tick ==
    (redraws' # redraws) =>
        IF duration_since(now, last_frame_time) >= frame_interval
        THEN /\ last_frame_time' = now
             /\ current_frame_index' = Advanced(current_frame_index)
             /\ advances' = IF frame_count > 0 THEN advances + 1 ELSE advances
             /\ (renderer' # None /\ frame_count > 0) =>
                   renderer'[1].current_texture_index = current_frame_index'
        ELSE /\ last_frame_time' = last_frame_time
             /\ current_frame_index' = current_frame_index
             /\ advances' = advances
             /\ renderer # None =>
                   renderer'[1].current_texture_index = renderer[1].current_texture_index

\* last_frame_time is the instant of the last advance: it moves only in a step
\* that advances, which comes at least frame_interval after it
C15_Gap ==
    /\ advances' # advances =>
          (now >= last_frame_time + frame_interval /\ last_frame_time' = now)
    /\ (advances' = advances /\ frame_count > 0) => last_frame_time' = last_frame_time

\* C15: a tick advances and resets last_frame_time exactly when the interval
\* has elapsed, then the renderer has the new index; otherwise nothing moves;
\* two consecutive advances are at least frame_interval apart
C15_TickAdvances == [][C15_Tick]_vars /\ [][C15_Gap]_vars

\* a tick exactly frame_interval after the advance before it has advanced
\* again and handed index 2 to the renderer
C15_Witness ==
    /\ last_call.op = "RedrawRequested"
    /\ advances = 2
    /\ last_frame_time = 2 * frame_interval
    /\ now = last_frame_time
    /\ current_frame_index = 2
    /\ renderer # None
    /\ renderer[1].current_texture_index = 2

\* on an empty sequence the index is 0, the index step has never run and the
\* last handler drew nothing
C16_Idle ==
    frame_count = 0 =>
        /\ current_frame_index = 0
        /\ advances = 0
        /\ CountCmd(last_call.fx, "draw") = 0
        /\ renderer # None =>
              /\ renderer[1].current_texture_index = 0
              /\ renderer[1].texture_bind_groups = <<>>

\* a tick on an empty sequence leaves the renderer as it was
C16_RendererUntouched ==
    (frame_count = 0 /\ redraws' # redraws) => renderer' = renderer

\* C16: on an empty sequence the index stays 0 through any ticks, the
\* renderer's index is never set and no draw call is issued
C16_EmptySequenceIdle == [](C16_Idle) /\ [][C16_RendererUntouched]_vars

\* an empty sequence was loaded and a tick later than frame_interval has been
\* handled and rendered
C16_Witness ==
    /\ image_sequence = Some(<<>>)
    /\ frame_count = 0
    /\ renderer # None
    /\ last_call.op = "RedrawRequested"
    /\ last_call.result = "Ok"
    /\ last_frame_time >= frame_interval

\* C21: a render run by the RedrawRequested handler on a non-empty cache binds
\* the bind group of the application's current_frame_index
C21_BindsCurrentFrame ==
    (/\ last_call.op = "RedrawRequested"
     /\ renderer # None
     /\ BoundGroup(last_call.fx) # None) =>
        /\ current_frame_index < Len(renderer[1].texture_bind_groups)
        /\ BoundGroup(last_call.fx) =
              Some(renderer[1].texture_bind_groups[current_frame_index + 1].id)

\* update gives the same index and the same last_frame_time with the renderer
\* installed as with none
C22_Independent ==
    LET with == update(Self, now)
        without == update([Self EXCEPT !.renderer = None], now)
    IN /\ without.current_frame_index = with.current_frame_index
       /\ without.last_frame_time = with.last_frame_time
       /\ without.stepped = with.stepped
       /\ without.renderer = None

\* a tick after the interval has elapsed advances and resets last_frame_time
\* whatever its render returns, and a render that draws binds the new index
C22_AdvanceFirst ==
    (redraws' # redraws /\ duration_since(now, last_frame_time) >= frame_interval) =>
        /\ last_call'.result \in {"Ok", "Err"}
        /\ last_frame_time' = now
        /\ current_frame_index' = Advanced(current_frame_index)
        /\ (frame_count > 0) => advances' = advances + 1
        /\ (BoundGroup(last_call'.fx) # None) =>
              BoundGroup(last_call'.fx) =
                  Some(renderer'[1].texture_bind_groups[current_frame_index' + 1].id)

\* no other handler, and no failed render, takes an advance back
C22_NoRollback ==
    /\ advances' >= advances
    /\ (redraws' = redraws) =>
          UNCHANGED <<current_frame_index, last_frame_time, advances>>

\* C22: in RedrawRequested the advance comes before the render and does not
\* depend on it: once the interval has elapsed the index advances and
\* last_frame_time is reset even when the render fails or no renderer is
\* installed, and the advance is never rolled back
C22_AdvanceIndependent ==
    /\ [](C22_Independent)
    /\ [][C22_AdvanceFirst]_vars
    /\ [][C22_NoRollback]_vars

\* a tick whose render failed has advanced to frame 1 and reset last_frame_time
C22_Witness ==
    /\ last_call.op = "RedrawRequested"
    /\ last_call.result = "Err"
    /\ advances = 1
    /\ current_frame_index = 1
    /\ now >= frame_interval
    /\ last_frame_time = now

----------------------------------------------------------------------------
(* Properties of the renderer, under SpecRenderer *)

Cache == renderer[1].texture_bind_groups

\* C4: set_current_texture_index(i) on a cache of N > 0 resources leaves the
\* current index at i mod N, inside [0, N)
C4_SelectWraps ==
    (last_call.op = "set_current_texture_index" /\ Len(Cache) > 0) =>
        /\ renderer[1].current_texture_index = last_call.index % Len(Cache)
        /\ renderer[1].current_texture_index \in 0..(Len(Cache) - 1)

\* five frames, index 7 selected: the current index is 2
C4_Witness ==
    /\ last_call.op = "set_current_texture_index"
    /\ last_call.index = 7
    /\ Len(Cache) = 5
    /\ renderer[1].current_texture_index = 2

\* C5: a resize with a zero width or height changes nothing of the renderer
\* (configuration, surface, both copies of the dimensions) and issues no command
C5_ZeroResizeNoOp ==
    [][(last_call'.op = "resize" /\ (last_call'.w = 0 \/ last_call'.h = 0)) =>
          (renderer' = renderer /\ last_call'.fx = <<>>)]_vars

\* a zero-width resize has been handled by a renderer that was resized and
\* loaded before
C5_Witness ==
    /\ last_call.op = "resize"
    /\ last_call.w = 0
    /\ last_call.h = 64
    /\ renderer[1].config = Size(128, 64)
    /\ renderer[1].surface = Size(128, 64)
    /\ renderer[1].dimensions_buffer.window_width = 128
    /\ Len(Cache) > 0

\* C6: a resize to a non-zero size (w, h) sets the configuration, the surface
\* and the surface dimensions of both copies of the uniform to (w, h), and
\* leaves the frame dimensions, the cache and the current index as they were
C6_ResizeSetsSurface ==
    [][(last_call'.op = "resize" /\ last_call'.w > 0 /\ last_call'.h > 0) =>
          LET r0 == renderer[1]
              r1 == renderer'[1]
              w  == last_call'.w
              h  == last_call'.h
          IN /\ r1.config = Size(w, h)
             /\ r1.surface = Size(w, h)
             /\ CountCmd(last_call'.fx, "configure") = 1
             /\ r1.current_dimensions =
                   [window_width |-> w, window_height |-> h,
                    image_width  |-> r0.current_dimensions.image_width,
                    image_height |-> r0.current_dimensions.image_height]
             /\ r1.dimensions_buffer = r1.current_dimensions
             /\ r1.texture_bind_groups = r0.texture_bind_groups
             /\ r1.current_texture_index = r0.current_texture_index]_vars

\* three 64x64 frames preloaded, then resize(128, 128): surface 128x128,
\* frame 64x64
C6_Witness ==
    /\ last_call.op = "resize"
    /\ last_call.w = 128
    /\ last_call.h = 128
    /\ Len(Cache) = 3
    /\ \A k \in 1..Len(Cache) : Cache[k].texture = ImageA
    /\ renderer[1].dimensions_buffer =
          [window_width |-> 128, window_height |-> 128,
           image_width |-> 64, image_height |-> 64]

\* C7: after preload_images of an empty list the cache holds no drawable
\* resource, and a render that follows issues no draw call and does not panic
C7_EmptyPreloadEmptiesCache ==
    (last_call.op = "preload_images" /\ last_call.images = <<>>) =>
        /\ Cache = <<>>
        /\ CountCmd(render(renderer[1], TRUE).fx, "draw") = 0
        /\ render(renderer[1], TRUE).result # "Panic"

\* the bind groups the last call created
CreatedBy(call) ==
    {call.fx[k].y : k \in {j \in 1..Len(call.fx) : call.fx[j].cmd = "create_bind_group"}}

\* C8: after preload_images(L) the cache holds one resource per image of L, in
\* the order of L, each created by this call
C8_CacheMatchesList ==
    last_call.op = "preload_images" =>
        /\ Len(Cache) = Len(last_call.images)
        /\ \A k \in 1..Len(Cache) :
              /\ Cache[k].texture = last_call.images[k]
              /\ Cache[k].id \in CreatedBy(last_call)

\* C9: a render on a non-empty cache that acquired a surface image issues one
\* draw of 4 vertices and 1 instance, then one submit, then one present
C9_OneDraw ==
    (/\ last_call.op = "render"
     /\ last_call.result # "Err"
     /\ Len(Cache) > 0) =>
        LET fx == last_call.fx
        IN /\ CountCmd(fx, "draw") = 1
           /\ CountCmd(fx, "submit") = 1
           /\ CountCmd(fx, "present") = 1
           /\ Len(fx) >= 3
           /\ SubSeq(fx, Len(fx) - 2, Len(fx)) =
                 <<Cmd("draw", 4, 1), Cmd("submit", 0, 0), Cmd("present", 0, 0)>>

\* a render has drawn from a cache of several frames
C9_Witness ==
    /\ last_call.op = "render"
    /\ last_call.result = "Ok"
    /\ Len(Cache) >= 3
    /\ CountCmd(last_call.fx, "draw") = 1

\* C10: the resource at position i of the cache was created from image i, the
\* resources of the cache are pairwise different, and a render binds the
\* resource at the selected index
C10_BindsSelected ==
    /\ \A i, j \in 1..Len(Cache) : i # j => Cache[i].id # Cache[j].id
    /\ \A i \in 1..Len(Cache) : Cache[i].label = i - 1
    /\ (last_call.op = "preload_images" /\ last_call.images # <<>>) =>
          \A i \in 1..Len(Cache) : Cache[i].texture = last_call.images[i]
    /\ (last_call.op = "render" /\ last_call.result = "Ok" /\ Len(Cache) > 0) =>
          BoundGroup(last_call.fx) =
              Some(Cache[renderer[1].current_texture_index + 1].id)

\* a render has bound the second of several resources
C10_Witness ==
    /\ last_call.op = "render"
    /\ last_call.result = "Ok"
    /\ Len(Cache) >= 2
    /\ renderer[1].current_texture_index = 1
    /\ BoundGroup(last_call.fx) = Some(Cache[2].id)
    /\ Cache[2].id # Cache[1].id

\* C17: a render on an empty cache acquires nothing, submits nothing, presents
\* nothing and cannot fail
C17_EmptyRenderNoOp ==
    (last_call.op = "render" /\ Cache = <<>>) =>
        /\ last_call.fx = <<>>
        /\ last_call.result = "Ok"

\* C18: preload_images on a non-empty list takes the uniform's image size from
\* the first image alone, writes the uniform to the buffer once, and leaves the
\* window size of the uniform and the surface configuration as they were
C18_FirstImageDims ==
    [][(last_call'.op = "preload_images" /\ last_call'.images # <<>>) =>
          LET first == last_call'.images[1]
              r0 == renderer[1]
              r1 == renderer'[1]
          IN /\ r1.current_dimensions.image_width = AsF32(first.width)
             /\ r1.current_dimensions.image_height = AsF32(first.height)
             /\ r1.dimensions_buffer = r1.current_dimensions
             /\ CountCmd(last_call'.fx, "write_buffer") = 1
             /\ r1.current_dimensions.window_width = r0.current_dimensions.window_width
             /\ r1.current_dimensions.window_height = r0.current_dimensions.window_height
             /\ r1.config = r0.config
             /\ r1.surface = r0.surface
             /\ CountCmd(last_call'.fx, "configure") = 0]_vars

\* a list whose second image has another size was preloaded after a resize
C18_Witness ==
    /\ last_call.op = "preload_images"
    /\ last_call.images = <<ImageA, ImageB>>
    /\ renderer[1].dimensions_buffer.image_width = 64
    /\ renderer[1].dimensions_buffer.image_height = 64
    /\ renderer[1].dimensions_buffer.window_width = 128
    /\ renderer[1].config.width = 128

\* C19: the uniform buffer on the device always holds the four values of the
\* CPU-side dimensions, so a render never reads a stale uniform
C19_BufferInSync ==
    renderer[1].dimensions_buffer = renderer[1].current_dimensions

\* a render after a resize and a preload reads the values of both writes
C19_Witness ==
    /\ last_call.op = "render"
    /\ last_call.result = "Ok"
    /\ renderer[1].dimensions_buffer =
          [window_width |-> 128, window_height |-> 64,
           image_width |-> 32, image_height |-> 48]

\* C20: with a non-empty cache current_texture_index is below the number of
\* cached bind groups, and no render indexes past the end of the cache
C20_IndexInCache ==
    /\ Cache # <<>> => renderer[1].current_texture_index < Len(Cache)
    /\ last_call.result # "Panic"

\* a render succeeded on a cache of two that replaced a cache of five
C20_Witness ==
    /\ last_call.op = "render"
    /\ last_call.result = "Ok"
    /\ CountCmd(last_call.fx, "draw") = 1
    /\ Len(Cache) = 2
    /\ renderer[1].device = 7
    /\ renderer[1].current_texture_index = 1

============================================================================
